---- MODULE Spec2Model ----
(***************************************************************************)
(* Model of amethyst_core's Transform component                            *)
(* (src/amethyst_core/src/transform/components/local_transform.rs).        *)
(*                                                                         *)
(* Numbers.  The component computes in f32.  The model computes exactly in *)
(* the field Q(sqrt 2): a number is <<a, b, d>> with d > 0, standing for   *)
(* (a + b*sqrt2)/d in lowest terms.  Two more values exist: NaN (what f32  *)
(* gives for 0/0, and for any operation on a NaN) and Off (a square root   *)
(* that leaves the field; an operator is only applied to arguments whose   *)
(* result stays inside the field).  f32 rounding is not modelled.          *)
(*                                                                         *)
(* Angles.  An angle is an integer number of quarter turns (k stands for   *)
(* k*pi/2 radians), so the half-angle sines and cosines that               *)
(* from_axis_angle and from_euler_angles need are in the field.            *)
(***************************************************************************)
EXTENDS Integers, Sequences, FiniteSets, TLC

VARIABLES
    self,    \* the Transform: [translation, rotation, scale]
    last,    \* the last call: its name, arguments, the Transform before it, its result
    n,       \* the number of calls made so far
    hazard   \* some look_at call broke its documented precondition

vars == <<self, last, n, hazard>>

(* ------------------------------------------------------------------ *)
(* Bounds of the model                                                 *)
(* ------------------------------------------------------------------ *)

\* number of operator calls made on the Transform
MaxOps == 2
\* largest angle (in quarter turns) passed to a rotation operator
MaxTurn == 2

(* ------------------------------------------------------------------ *)
(* f32 arithmetic, exact in Q(sqrt 2), with NaN                        *)
(* ------------------------------------------------------------------ *)

Abs(i) == IF i < 0 THEN -i ELSE i

RECURSIVE GCD(_, _)
GCD(a, b) == IF b = 0 THEN a ELSE GCD(b, a % b)

NaN == <<0, 0, 0>>
Off == <<0, 0, -1>>

IsNaN(x) == x[3] = 0
IsOff(x) == x[3] < 0
IsNum(x) == x[3] > 0

\* the result of an operation one of whose operands is NaN or Off
Bad(x, y) == IF IsOff(x) \/ IsOff(y) THEN Off ELSE NaN

\* (a + b*sqrt2)/d in lowest terms
Mk(a, b, d) ==
    IF d = 0 THEN NaN
    ELSE IF d = 1 THEN <<a, b, 1>>
    ELSE LET g == GCD(GCD(Abs(a), Abs(b)), Abs(d))
             s == IF d < 0 THEN -1 ELSE 1
         IN  <<(s * a) \div g, (s * b) \div g, (s * d) \div g>>

I(k) == <<k, 0, 1>>
Zero == <<0, 0, 1>>
One == <<1, 0, 1>>
Two == <<2, 0, 1>>
Quarter == <<1, 0, 4>>
\* sqrt(2)/2 = cos(pi/4) = sin(pi/4)
HalfRoot2 == <<0, 1, 2>>

Neg(x) == IF ~IsNum(x) THEN x ELSE <<-x[1], -x[2], x[3]>>

Add(x, y) ==
    IF ~IsNum(x) \/ ~IsNum(y) THEN Bad(x, y)
    ELSE IF x[3] = y[3] THEN Mk(x[1] + y[1], x[2] + y[2], x[3])
    ELSE Mk(x[1] * y[3] + y[1] * x[3], x[2] * y[3] + y[2] * x[3], x[3] * y[3])

Sub(x, y) == Add(x, Neg(y))

Mul(x, y) ==
    IF ~IsNum(x) \/ ~IsNum(y) THEN Bad(x, y)
    ELSE Mk(x[1] * y[1] + 2 * x[2] * y[2], x[1] * y[2] + x[2] * y[1], x[3] * y[3])

\* x / y; 0/0 is NaN.  (x /= 0)/0 would be an infinity: no operator of the
\* component divides a non-zero number by zero in exact arithmetic, and the
\* model has no value for it.
Div(x, y) ==
    IF ~IsNum(x) \/ ~IsNum(y) THEN Bad(x, y)
    ELSE LET c == y[1] * y[1] - 2 * y[2] * y[2]
         IN  IF c = 0 THEN NaN
             ELSE Mk(y[3] * (x[1] * y[1] - 2 * x[2] * y[2]),
                     y[3] * (x[2] * y[1] - x[1] * y[2]),
                     x[3] * c)

\* x > 0 as f32 compares: FALSE when x is NaN
Pos(x) ==
    /\ IsNum(x)
    /\ \/ x[1] > 0 /\ x[2] >= 0
       \/ x[1] >= 0 /\ x[2] > 0
       \/ x[1] > 0 /\ x[2] < 0 /\ x[1] * x[1] > 2 * x[2] * x[2]
       \/ x[1] < 0 /\ x[2] > 0 /\ 2 * x[2] * x[2] > x[1] * x[1]

\* x > y as f32 compares: FALSE when either is NaN
Gt(x, y) == Pos(Sub(x, y))

\* x == y as f32 compares: NaN equals nothing, itself included
Eq(x, y) == IsNum(x) /\ IsNum(y) /\ x = y

\* the integer square root, by Newton's iteration from above
RECURSIVE ISqrtFrom(_, _)
ISqrtFrom(m, r) ==
    LET next == (r + m \div r) \div 2
    IN  IF next >= r THEN r ELSE ISqrtFrom(m, next)

ISqrt(m) == IF m = 0 THEN 0 ELSE ISqrtFrom(m, m)

IsSquare(m) == m >= 0 /\ ISqrt(m) * ISqrt(m) = m

\* f32::sqrt: the root of a/d is r/d when a*d = r*r and r*sqrt2/(2d) when
\* 2*a*d = r*r; the root of a negative number or of NaN is NaN; any other
\* root is outside the field.
Sqrt(x) ==
    IF ~IsNum(x) THEN x
    ELSE IF x[2] # 0 THEN Off
    ELSE IF x[1] < 0 THEN NaN
    ELSE IF IsSquare(x[1] * x[3]) THEN Mk(ISqrt(x[1] * x[3]), 0, x[3])
    ELSE IF IsSquare(2 * x[1] * x[3]) THEN Mk(0, ISqrt(2 * x[1] * x[3]), 2 * x[3])
    ELSE Off

\* cos and sin of half of k quarter turns (k*pi/4): f32::sin_cos(angle * 0.5)
CosHalf(k) ==
    CASE k % 8 = 0 -> One
      [] k % 8 \in {1, 7} -> HalfRoot2
      [] k % 8 \in {2, 6} -> Zero
      [] k % 8 \in {3, 5} -> Neg(HalfRoot2)
      [] k % 8 = 4 -> Neg(One)

SinHalf(k) ==
    CASE k % 8 \in {0, 4} -> Zero
      [] k % 8 \in {1, 3} -> HalfRoot2
      [] k % 8 = 2 -> One
      [] k % 8 \in {5, 7} -> Neg(HalfRoot2)
      [] k % 8 = 6 -> Neg(One)

(* ------------------------------------------------------------------ *)
(* nalgebra values used by the component: Vector3, Quaternion, Matrix  *)
(* ------------------------------------------------------------------ *)

\* Vector3::new(x, y, z) of integers
V(x, y, z) == <<I(x), I(y), I(z)>>

VAdd(u, v) == <<Add(u[1], v[1]), Add(u[2], v[2]), Add(u[3], v[3])>>

VSub(u, v) == <<Sub(u[1], v[1]), Sub(u[2], v[2]), Sub(u[3], v[3])>>

VNeg(u) == <<Neg(u[1]), Neg(u[2]), Neg(u[3])>>

\* vector * scalar
VScale(u, c) == <<Mul(u[1], c), Mul(u[2], c), Mul(u[3], c)>>

\* Vector3::component_mul
component_mul(u, v) == <<Mul(u[1], v[1]), Mul(u[2], v[2]), Mul(u[3], v[3])>>

Dot(u, v) == Add(Add(Mul(u[1], v[1]), Mul(u[2], v[2])), Mul(u[3], v[3]))

Cross(u, v) ==
    <<Sub(Mul(u[2], v[3]), Mul(u[3], v[2])),
      Sub(Mul(u[3], v[1]), Mul(u[1], v[3])),
      Sub(Mul(u[1], v[2]), Mul(u[2], v[1]))>>

\* Vector3::normalize: self / self.norm(); the zero vector gives (NaN, NaN, NaN)
VNormalize(u) ==
    LET len == Sqrt(Dot(u, u))
    IN  <<Div(u[1], len), Div(u[2], len), Div(u[3], len)>>

\* Quaternion::new(w, i, j, k): nalgebra stores the coordinates as (i, j, k, w)
QNew(w, i, j, k) == <<i, j, k, w>>

QW(q) == q[4]

\* the vector part (i, j, k)
QVec(q) == <<q[1], q[2], q[3]>>

\* UnitQuaternion::identity()
QIdentity == QNew(One, Zero, Zero, Zero)

\* Quaternion::norm
QNorm(q) ==
    Sqrt(Add(Add(Mul(q[1], q[1]), Mul(q[2], q[2])),
             Add(Mul(q[3], q[3]), Mul(q[4], q[4]))))

\* UnitQuaternion * UnitQuaternion (Hamilton product)
QMul(p, q) ==
    QNew(Sub(Sub(Sub(Mul(p[4], q[4]), Mul(p[1], q[1])), Mul(p[2], q[2])), Mul(p[3], q[3])),
         Sub(Add(Add(Mul(p[4], q[1]), Mul(p[1], q[4])), Mul(p[2], q[3])), Mul(p[3], q[2])),
         Add(Add(Sub(Mul(p[4], q[2]), Mul(p[1], q[3])), Mul(p[2], q[4])), Mul(p[3], q[1])),
         Add(Sub(Add(Mul(p[4], q[3]), Mul(p[1], q[2])), Mul(p[2], q[1])), Mul(p[3], q[4])))

\* UnitQuaternion::inverse: the conjugate
QInverse(q) == QNew(q[4], Neg(q[1]), Neg(q[2]), Neg(q[3]))

\* UnitQuaternion * Vector3: v + w*t + qv x t, t = 2 (qv x v)
QRot(q, v) ==
    LET t == VScale(Cross(QVec(q), v), Two)
    IN  VAdd(VAdd(VScale(t, QW(q)), Cross(QVec(q), t)), v)

\* Unit::new_normalize(q): q / q.norm(); the zero quaternion gives NaNs
new_normalize(q) ==
    LET len == QNorm(q)
    IN  <<Div(q[1], len), Div(q[2], len), Div(q[3], len), Div(q[4], len)>>

\* UnitQuaternion::from_axis_angle(axis, angle), angle in quarter turns
from_axis_angle(axis, angle) ==
    LET c == CosHalf(angle)
        s == SinHalf(angle)
    IN  QNew(c, Mul(axis[1], s), Mul(axis[2], s), Mul(axis[3], s))

\* UnitQuaternion::from_euler_angles(roll, pitch, yaw), angles in quarter turns
from_euler_angles(roll, pitch, yaw) ==
    LET sr == SinHalf(roll)
        cr == CosHalf(roll)
        sp == SinHalf(pitch)
        cp == CosHalf(pitch)
        sy == SinHalf(yaw)
        cy == CosHalf(yaw)
    IN  QNew(Add(Mul(Mul(cr, cp), cy), Mul(Mul(sr, sp), sy)),
             Sub(Mul(Mul(sr, cp), cy), Mul(Mul(cr, sp), sy)),
             Add(Mul(Mul(cr, sp), cy), Mul(Mul(sr, cp), sy)),
             Sub(Mul(Mul(cr, cp), sy), Mul(Mul(sr, sp), cy)))

\* UnitQuaternion::to_rotation_matrix: the 3x3 matrix, as rows
to_rotation_matrix(q) ==
    LET i == q[1]
        j == q[2]
        k == q[3]
        w == q[4]
        ww == Mul(w, w)
        ii == Mul(i, i)
        jj == Mul(j, j)
        kk == Mul(k, k)
        ij == Mul(Mul(i, j), Two)
        wk == Mul(Mul(w, k), Two)
        wj == Mul(Mul(w, j), Two)
        ik == Mul(Mul(i, k), Two)
        jk == Mul(Mul(j, k), Two)
        wi == Mul(Mul(w, i), Two)
    IN  << <<Sub(Sub(Add(ww, ii), jj), kk), Sub(ij, wk), Add(wj, ik)>>,
           <<Add(wk, ij), Sub(Add(Sub(ww, ii), jj), kk), Sub(jk, wi)>>,
           <<Sub(ik, wj), Add(wi, jk), Add(Sub(Sub(ww, ii), jj), kk)>> >>

\* UnitQuaternion::from_rotation_matrix (the branches compare as f32 does)
from_rotation_matrix(m) ==
    LET tr == Add(Add(m[1][1], m[2][2]), m[3][3])
    IN  IF Pos(tr) THEN
            LET denom == Mul(Sqrt(Add(tr, One)), Two)
            IN  QNew(Mul(Quarter, denom),
                     Div(Sub(m[3][2], m[2][3]), denom),
                     Div(Sub(m[1][3], m[3][1]), denom),
                     Div(Sub(m[2][1], m[1][2]), denom))
        ELSE IF Gt(m[1][1], m[2][2]) /\ Gt(m[1][1], m[3][3]) THEN
            LET denom == Mul(Sqrt(Sub(Sub(Add(One, m[1][1]), m[2][2]), m[3][3])), Two)
            IN  QNew(Div(Sub(m[3][2], m[2][3]), denom),
                     Mul(Quarter, denom),
                     Div(Add(m[1][2], m[2][1]), denom),
                     Div(Add(m[1][3], m[3][1]), denom))
        ELSE IF Gt(m[2][2], m[3][3]) THEN
            LET denom == Mul(Sqrt(Sub(Sub(Add(One, m[2][2]), m[1][1]), m[3][3])), Two)
            IN  QNew(Div(Sub(m[1][3], m[3][1]), denom),
                     Div(Add(m[1][2], m[2][1]), denom),
                     Mul(Quarter, denom),
                     Div(Add(m[2][3], m[3][2]), denom))
        ELSE
            LET denom == Mul(Sqrt(Sub(Sub(Add(One, m[3][3]), m[1][1]), m[2][2])), Two)
            IN  QNew(Div(Sub(m[2][1], m[1][2]), denom),
                     Div(Add(m[1][3], m[3][1]), denom),
                     Div(Add(m[2][3], m[3][2]), denom),
                     Mul(Quarter, denom))

\* Rotation3::new_observer_frame(dir, up): the columns are the frame's axes
new_observer_frame(dir, up) ==
    LET zaxis == VNormalize(dir)
        xaxis == VNormalize(Cross(up, zaxis))
        yaxis == VNormalize(Cross(zaxis, xaxis))
    IN  << <<xaxis[1], yaxis[1], zaxis[1]>>,
           <<xaxis[2], yaxis[2], zaxis[2]>>,
           <<xaxis[3], yaxis[3], zaxis[3]>> >>

\* UnitQuaternion::look_at_rh(dir, up):
\* Self::new_observer_frame(&-dir, up).inverse()
look_at_rh(dir, up) == QInverse(from_rotation_matrix(new_observer_frame(VNeg(dir), up)))

\* Matrix4 values are tuples of four rows
Identity4 ==
    << <<One, Zero, Zero, Zero>>,
       <<Zero, One, Zero, Zero>>,
       <<Zero, Zero, One, Zero>>,
       <<Zero, Zero, Zero, One>> >>

\* Isometry3::to_homogeneous: rotation block, translation column, row (0,0,0,1)
to_homogeneous(translation, rotation) ==
    LET r == to_rotation_matrix(rotation)
    IN  << <<r[1][1], r[1][2], r[1][3], translation[1]>>,
           <<r[2][1], r[2][2], r[2][3], translation[2]>>,
           <<r[3][1], r[3][2], r[3][3], translation[3]>>,
           <<Zero, Zero, Zero, One>> >>

\* Matrix4::prepend_nonuniform_scaling: column j is multiplied by scaling[j]
prepend_nonuniform_scaling(m, scaling) ==
    [r \in 1..4 |-> [c \in 1..4 |-> IF c <= 3 THEN Mul(m[r][c], scaling[c]) ELSE m[r][c]]]

\* Matrix4 * Matrix4
MatMul(a, b) ==
    [r \in 1..4 |-> [c \in 1..4 |->
        Add(Add(Mul(a[r][1], b[1][c]), Mul(a[r][2], b[2][c])),
            Add(Mul(a[r][3], b[3][c]), Mul(a[r][4], b[4][c])))]]

\* the matrix applied to the point p, as the homogeneous column (p, 1)
MatPoint(m, p) ==
    [r \in 1..4 |->
        Add(Add(Mul(m[r][1], p[1]), Mul(m[r][2], p[2])),
            Add(Mul(m[r][3], p[3]), m[r][4]))]

Det3(m) ==
    Add(Sub(Mul(m[1][1], Sub(Mul(m[2][2], m[3][3]), Mul(m[2][3], m[3][2]))),
            Mul(m[1][2], Sub(Mul(m[2][1], m[3][3]), Mul(m[2][3], m[3][1])))),
        Mul(m[1][3], Sub(Mul(m[2][1], m[3][2]), Mul(m[2][2], m[3][1]))))

\* the 3x3 matrix left of m without row r and column c
Minor(m, r, c) ==
    [i \in 1..3 |-> [j \in 1..3 |->
        m[IF i < r THEN i ELSE i + 1][IF j < c THEN j ELSE j + 1]]]

Cofactor(m, r, c) ==
    IF (r + c) % 2 = 0 THEN Det3(Minor(m, r, c)) ELSE Neg(Det3(Minor(m, r, c)))

\* Matrix4::try_inverse: None when the determinant compares equal to zero,
\* otherwise the cofactors times 1/det (a NaN determinant is not equal to
\* zero, and gives a matrix of NaNs)
try_inverse(m) ==
    \* the cofactors are computed once, as the code does before it tests det
    LET Inverse(cof) ==
            LET det == Add(Add(Mul(m[1][1], cof[1][1]), Mul(m[1][2], cof[1][2])),
                           Add(Mul(m[1][3], cof[1][3]), Mul(m[1][4], cof[1][4])))
            IN  IF Eq(det, Zero) THEN [some |-> FALSE, m |-> <<>>]
                ELSE [some |-> TRUE,
                      m |-> [r \in 1..4 |-> [c \in 1..4 |-> Mul(cof[c][r], Div(One, det))]]]
    IN  Inverse([r \in 1..4 |-> [c \in 1..4 |-> Cofactor(m, r, c)]])

(* ------------------------------------------------------------------ *)
(* Transform and its operators                                         *)
(* ------------------------------------------------------------------ *)

\* struct Transform { iso: Isometry3 { translation, rotation }, scale }
Transform(translation, rotation, scale) ==
    [translation |-> translation, rotation |-> rotation, scale |-> scale]

\* impl Default for Transform
Default == Transform(V(0, 0, 0), QIdentity, V(1, 1, 1))

x_axis == V(1, 0, 0)
y_axis == V(0, 1, 0)
z_axis == V(0, 0, 1)

\* look_at() storing the direction as a pure quaternion, never normalized
look_at_pure(t, target, up) ==
    LET dir == VSub(target, t.translation)
    IN  [t EXCEPT !.rotation = QNew(Zero, dir[1], dir[2], dir[3])]

look_at(t, target, up) ==
    [t EXCEPT !.rotation = look_at_rh(VSub(target, t.translation), up)]

\* Matrix4::append_nonuniform_scaling: row i is multiplied by scaling[i]
append_nonuniform_scaling(m, scaling) ==
    [r \in 1..4 |-> [c \in 1..4 |-> IF r <= 3 THEN Mul(m[r][c], scaling[r]) ELSE m[r][c]]]

\* matrix() with the scaling applied after the isometry instead of before it
matrix_appended(t) ==
    append_nonuniform_scaling(to_homogeneous(t.translation, t.rotation), t.scale)

matrix(t) ==
    prepend_nonuniform_scaling(to_homogeneous(t.translation, t.rotation), t.scale)

move_global(t, translation) ==
    [t EXCEPT !.translation = VAdd(t.translation, translation)]

move_local(t, translation) ==
    [t EXCEPT !.translation = VAdd(t.translation, QRot(t.rotation, translation))]

move_along_global(t, direction, distance) ==
    [t EXCEPT !.translation = VAdd(t.translation, VScale(direction, distance))]

move_along_local(t, direction, distance) ==
    [t EXCEPT !.translation =
        VAdd(t.translation, VScale(QRot(t.rotation, direction), distance))]

move_forward(t, amount) == move_local(t, <<Zero, Zero, Neg(amount)>>)

move_backward(t, amount) == move_local(t, <<Zero, Zero, amount>>)

move_right(t, amount) == move_local(t, <<amount, Zero, Zero>>)

move_left(t, amount) == move_local(t, <<Neg(amount), Zero, Zero>>)

move_up(t, amount) == move_local(t, <<Zero, amount, Zero>>)

move_down(t, amount) == move_local(t, <<Zero, Neg(amount), Zero>>)

add_x(t, amount) == [t EXCEPT !.translation[1] = Add(@, amount)]

add_y(t, amount) == [t EXCEPT !.translation[2] = Add(@, amount)]

add_z(t, amount) == [t EXCEPT !.translation[3] = Add(@, amount)]

set_x(t, value) == [t EXCEPT !.translation[1] = value]

set_y(t, value) == [t EXCEPT !.translation[2] = value]

set_z(t, value) == [t EXCEPT !.translation[3] = value]

\* rotate_global() multiplying on the wrong side
rotate_global_post(t, axis, angle) ==
    LET q == from_axis_angle(axis, angle)
    IN  [t EXCEPT !.rotation = QMul(t.rotation, q)]

rotate_global(t, axis, angle) ==
    LET q == from_axis_angle(axis, angle)
    IN  [t EXCEPT !.rotation = QMul(q, t.rotation)]

rotate_local(t, axis, angle) ==
    LET q == from_axis_angle(axis, angle)
    IN  [t EXCEPT !.rotation = QMul(t.rotation, q)]

pitch_global(t, angle) == rotate_global(t, x_axis, angle)

pitch_local(t, angle) == rotate_local(t, x_axis, angle)

yaw_global(t, angle) == rotate_global(t, y_axis, angle)

yaw_local(t, angle) == rotate_local(t, y_axis, angle)

roll_global(t, angle) == rotate_global(t, VNeg(z_axis), angle)

roll_local(t, angle) == rotate_local(t, VNeg(z_axis), angle)

\* set_position() rebuilding the Transform from the position, as
\* From<Vector3> does
set_position_from(t, position) == Transform(position, QIdentity, V(1, 1, 1))

set_position(t, position) == [t EXCEPT !.translation = position]

add_xyz(t, x, y, z) == add_z(add_y(add_x(t, x), y), z)

set_xyz(t, x, y, z) == set_position(t, <<x, y, z>>)

set_rotation(t, rotation) == [t EXCEPT !.rotation = rotation]

set_scale(t, x, y, z) == [t EXCEPT !.scale = <<x, y, z>>]

set_rotation_euler(t, x, y, z) ==
    [t EXCEPT !.rotation = from_euler_angles(z, x, y)]

\* concat() composing with the inverse of the other rotation
concat_inverse(t, other) ==
    LET scale == component_mul(t.scale, other.scale)
        rotation == QMul(t.rotation, QInverse(other.rotation))
    IN  Transform(VAdd(t.translation, QRot(rotation, component_mul(other.translation, scale))),
                  rotation, scale)

\* the three assignments in the order the code makes them: the translation
\* is computed from the scale and the rotation already updated
concat(t, other) ==
    LET scale == component_mul(t.scale, other.scale)
        rotation == QMul(t.rotation, other.rotation)
    IN  Transform(VAdd(t.translation, QRot(rotation, component_mul(other.translation, scale))),
                  rotation, scale)

\* view_matrix() with unwrap_or(identity): a singular matrix is swallowed
view_matrix_or_identity(t) ==
    LET Unwrap(inv) == [panic |-> FALSE, m |-> IF inv.some THEN inv.m ELSE Identity4]
    IN  Unwrap(try_inverse(matrix(t)))

\* self.matrix().try_inverse().unwrap(): unwrap panics on None
view_matrix(t) ==
    LET Unwrap(inv) == [panic |-> ~inv.some, m |-> inv.m]
    IN  Unwrap(try_inverse(matrix(t)))

(* ------------------------------------------------------------------ *)
(* Wire codec                                                          *)
(* ------------------------------------------------------------------ *)

\* the default with the identity rotation written in (x, y, z, w) order
SerializedDefaultXyzw ==
    [translation |-> <<Zero, Zero, Zero>>,
     rotation |-> <<Zero, Zero, Zero, One>>,
     scale |-> <<One, One, One>>]

\* impl Default for SerializedTransform
SerializedDefault ==
    [translation |-> <<Zero, Zero, Zero>>,
     rotation |-> <<One, Zero, Zero, Zero>>,
     scale |-> <<One, One, One>>]

\* a wire record is a sequence of fields <<name, numbers>>
HasField(rec, name) == \E i \in 1..Len(rec) : rec[i][1] = name

FieldOf(rec, name) == rec[CHOOSE i \in 1..Len(rec) : rec[i][1] = name][2]

\* the length serde expects of each field of SerializedTransform
FieldLen(name) == IF name = "rotation" THEN 4 ELSE 3

\* #[derive(Deserialize)] #[serde(default)]: a field that is present twice
\* or has the wrong number of components is an error
WellFormed(rec) ==
    /\ \A i \in 1..Len(rec) : Len(rec[i][2]) = FieldLen(rec[i][1])
    /\ \A i, j \in 1..Len(rec) : rec[i][1] = rec[j][1] => i = j

\* SerializedTransform::deserialize: an absent field keeps the value
\* SerializedTransform::default() gives it
SerializedTransform(rec) ==
    [f \in {"translation", "rotation", "scale"} |->
        IF HasField(rec, f) THEN FieldOf(rec, f) ELSE SerializedDefault[f]]

\* impl Deserialize for Transform
deserialize(rec) ==
    IF ~WellFormed(rec) THEN [ok |-> FALSE, t |-> <<>>]
    ELSE LET st == SerializedTransform(rec)
         IN  [ok |-> TRUE,
              t |-> Transform(<<st.translation[1], st.translation[2], st.translation[3]>>,
                              new_normalize(QNew(st.rotation[1], st.rotation[2],
                                                 st.rotation[3], st.rotation[4])),
                              st.scale)]

\* serialize() writing the rotation in storage order (x, y, z, w)
serialize_xyzw(t) ==
    << <<"translation", t.translation>>,
       <<"rotation", t.rotation>>,
       <<"scale", t.scale>> >>

\* impl Serialize for Transform: the derived serializer emits the fields of
\* SerializedTransform in declaration order
serialize(t) ==
    LET r == t.rotation
    IN  << <<"translation", t.translation>>,
           <<"rotation", <<r[4], r[1], r[2], r[3]>> >>,
           <<"scale", t.scale>> >>

(* ------------------------------------------------------------------ *)
(* Arguments the operators are called with                             *)
(* ------------------------------------------------------------------ *)

Targets == {V(0, 1, 0), V(-1, 0, 0), V(0, 0, 0)}

Ups == {V(0, 0, 1), V(0, 1, 0)}

Moves == {V(1, 0, 0), V(0, 2, -1)}

Amounts == {One}

Values == {Two}

Axes == {x_axis, y_axis, z_axis}

\* unit directions of move_along_*
Directions == {y_axis, V(0, 0, -1)}

\* the angle of the pitch, yaw and roll shortcuts
Turns == {1}

Angles == 1..MaxTurn

\* unit quaternions: a third of a turn about (1,1,1), and a rotation about
\* the y axis whose half-angle has cosine 3/5
UnitQuats ==
    {QNew(<<1, 0, 2>>, <<1, 0, 2>>, <<1, 0, 2>>, <<1, 0, 2>>),
     QNew(<<3, 0, 5>>, Zero, <<4, 0, 5>>, Zero)}

Scales == {V(2, 1, 1), V(1, 0, 1), V(2, 3, -1)}

Eulers == {<<1, 0, 0>>, <<0, 1, 0>>, <<0, 0, 1>>, <<1, 2, 1>>}

Others ==
    {Transform(V(1, 0, 0), from_axis_angle(z_axis, 1), V(1, 1, 1)),
     Transform(V(0, 1, 2), QNew(<<1, 0, 2>>, <<1, 0, 2>>, <<1, 0, 2>>, <<1, 0, 2>>), V(2, 1, 3)),
     Transform(V(-1, 0, 1), QIdentity, V(1, 2, 1))}

\* points a matrix is applied to
Points == {V(0, 0, 0), V(1, 0, 0), V(0, 1, 0), V(0, 0, 1), V(1, 2, 3)}

\* rotation fields on the wire: of norm 1, 2, 5, sqrt 2 and 0
WireRotations ==
    {<<One, Zero, Zero, Zero>>, <<I(1), I(1), I(1), I(1)>>, <<I(0), I(3), I(0), I(4)>>,
     <<I(1), I(1), I(0), I(0)>>, <<I(0), I(0), I(-2), I(0)>>, <<I(0), I(0), I(0), I(0)>>}

WireTranslations == {V(1, 2, 3), V(0, 0, -1)}

WireScales == {V(2, 3, 4), V(1, 0, 1)}

\* records with each field present or absent, in the canonical field order
\* and in the reverse order, and two malformed ones
WireRecords ==
    LET ts == {<<>>} \cup {<< <<"translation", v>> >> : v \in WireTranslations}
        rs == {<<>>} \cup {<< <<"rotation", q>> >> : q \in WireRotations}
        ss == {<<>>} \cup {<< <<"scale", v>> >> : v \in WireScales}
    IN  {t \o r \o s : t \in ts, r \in rs, s \in ss}
        \cup {s \o r \o t : t \in ts, r \in rs, s \in ss}
        \cup {<< <<"rotation", <<One, Zero, Zero>> >> >>,
              << <<"scale", V(1, 1, 1)>>, <<"scale", V(2, 2, 2)>> >>}

(* ------------------------------------------------------------------ *)
(* The state machine                                                   *)
(* ------------------------------------------------------------------ *)

\* the receiver of a call that has none (a constructor)
NoTransform == <<>>

Call(op, args, pre, val, panic) ==
    [op |-> op, args |-> args, pre |-> pre, val |-> val, panic |-> panic]

Init ==
    /\ self = Default
    /\ last = Call("default", <<>>, Default, <<>>, FALSE)
    /\ n = 0
    /\ hazard = FALSE

\* every component is a number of the field or NaN
InField(t) ==
    /\ \A i \in 1..3 : ~IsOff(t.translation[i]) /\ ~IsOff(t.scale[i])
    /\ \A i \in 1..4 : ~IsOff(t.rotation[i])

\* look_at's documented hazard: up parallel to the direction looked in (a
\* zero direction included)
Degenerate(dir, up) ==
    LET c == Cross(up, dir)
    IN  \/ \E i \in 1..3 : ~IsNum(c[i])
        \/ c = V(0, 0, 0)

\* a mutating call: the operator's result replaces the Transform
Mutate(op, args, t) ==
    /\ ~last.panic
    /\ n < MaxOps
    /\ self' = t
    /\ InField(self')
    /\ last' = Call(op, args, self, <<>>, FALSE)
    /\ n' = n + 1

\* a reading call: the Transform is borrowed immutably
Read(op, val, panic) ==
    /\ ~last.panic
    /\ n < MaxOps
    /\ last' = Call(op, <<>>, self, val, panic)
    /\ n' = n + 1
    /\ UNCHANGED <<self, hazard>>

LookAt ==
    \E target \in Targets, up \in Ups :
        /\ Mutate("look_at", <<target, up>>, look_at(self, target, up))
        /\ hazard' = (hazard \/ Degenerate(VSub(target, self.translation), up))

Matrix ==
    /\ n < MaxOps
    /\ \E m \in {matrix(self)} : Read("matrix", m, FALSE)

ViewMatrix ==
    /\ n < MaxOps
    /\ \E r \in {view_matrix(self)} : Read("view_matrix", r.m, r.panic)

\* the read accessors: the field borrowed
translation(t) == t.translation

rotation(t) == t.rotation

isometry(t) == [translation |-> t.translation, rotation |-> t.rotation]

\* orientation(): the rotation matrix handed to Orientation::from
orientation(t) == to_rotation_matrix(t.rotation)

TranslationRef ==
    /\ n < MaxOps
    /\ \E v \in {translation(self)} : Read("translation", v, FALSE)

RotationRef ==
    /\ n < MaxOps
    /\ \E q \in {rotation(self)} : Read("rotation", q, FALSE)

IsometryRef ==
    /\ n < MaxOps
    /\ \E iso \in {isometry(self)} : Read("isometry", iso, FALSE)

Orientation ==
    /\ n < MaxOps
    /\ \E m \in {orientation(self)} : Read("orientation", m, FALSE)

MoveGlobal ==
    \E v \in Moves : Mutate("move_global", <<v>>, move_global(self, v)) /\ UNCHANGED hazard

MoveLocal ==
    \E v \in Moves : Mutate("move_local", <<v>>, move_local(self, v)) /\ UNCHANGED hazard

MoveAlongGlobal ==
    \E d \in Directions, a \in Values :
        Mutate("move_along_global", <<d, a>>, move_along_global(self, d, a)) /\ UNCHANGED hazard

MoveAlongLocal ==
    \E d \in Directions, a \in Values :
        Mutate("move_along_local", <<d, a>>, move_along_local(self, d, a)) /\ UNCHANGED hazard

MoveForward ==
    \E a \in Amounts : Mutate("move_forward", <<a>>, move_forward(self, a)) /\ UNCHANGED hazard

MoveBackward ==
    \E a \in Amounts : Mutate("move_backward", <<a>>, move_backward(self, a)) /\ UNCHANGED hazard

MoveRight ==
    \E a \in Amounts : Mutate("move_right", <<a>>, move_right(self, a)) /\ UNCHANGED hazard

MoveLeft ==
    \E a \in Amounts : Mutate("move_left", <<a>>, move_left(self, a)) /\ UNCHANGED hazard

MoveUp ==
    \E a \in Amounts : Mutate("move_up", <<a>>, move_up(self, a)) /\ UNCHANGED hazard

MoveDown ==
    \E a \in Amounts : Mutate("move_down", <<a>>, move_down(self, a)) /\ UNCHANGED hazard

AddX == \E a \in Amounts : Mutate("add_x", <<a>>, add_x(self, a)) /\ UNCHANGED hazard

AddY == \E a \in Amounts : Mutate("add_y", <<a>>, add_y(self, a)) /\ UNCHANGED hazard

AddZ == \E a \in Amounts : Mutate("add_z", <<a>>, add_z(self, a)) /\ UNCHANGED hazard

SetX == \E a \in Values : Mutate("set_x", <<a>>, set_x(self, a)) /\ UNCHANGED hazard

SetY == \E a \in Values : Mutate("set_y", <<a>>, set_y(self, a)) /\ UNCHANGED hazard

SetZ == \E a \in Values : Mutate("set_z", <<a>>, set_z(self, a)) /\ UNCHANGED hazard

PitchGlobal ==
    \E a \in Turns : Mutate("pitch_global", <<a>>, pitch_global(self, a)) /\ UNCHANGED hazard

PitchLocal ==
    \E a \in Turns : Mutate("pitch_local", <<a>>, pitch_local(self, a)) /\ UNCHANGED hazard

YawGlobal ==
    \E a \in Turns : Mutate("yaw_global", <<a>>, yaw_global(self, a)) /\ UNCHANGED hazard

YawLocal ==
    \E a \in Turns : Mutate("yaw_local", <<a>>, yaw_local(self, a)) /\ UNCHANGED hazard

RollGlobal ==
    \E a \in Turns : Mutate("roll_global", <<a>>, roll_global(self, a)) /\ UNCHANGED hazard

RollLocal ==
    \E a \in Turns : Mutate("roll_local", <<a>>, roll_local(self, a)) /\ UNCHANGED hazard

RotateGlobal ==
    \E axis \in Axes, a \in Angles :
        Mutate("rotate_global", <<axis, a>>, rotate_global(self, axis, a)) /\ UNCHANGED hazard

RotateLocal ==
    \E axis \in Axes, a \in Angles :
        Mutate("rotate_local", <<axis, a>>, rotate_local(self, axis, a)) /\ UNCHANGED hazard

SetPosition ==
    \E v \in Moves : Mutate("set_position", <<v>>, set_position(self, v)) /\ UNCHANGED hazard

AddXyz ==
    \E v \in Moves :
        Mutate("add_xyz", v, add_xyz(self, v[1], v[2], v[3])) /\ UNCHANGED hazard

SetXyz ==
    \E v \in Moves :
        Mutate("set_xyz", v, set_xyz(self, v[1], v[2], v[3])) /\ UNCHANGED hazard

SetRotation ==
    \E q \in UnitQuats : Mutate("set_rotation", <<q>>, set_rotation(self, q)) /\ UNCHANGED hazard

SetScale ==
    \E s \in Scales :
        Mutate("set_scale", s, set_scale(self, s[1], s[2], s[3])) /\ UNCHANGED hazard

SetRotationEuler ==
    \E e \in Eulers :
        Mutate("set_rotation_euler", e, set_rotation_euler(self, e[1], e[2], e[3]))
        /\ UNCHANGED hazard

Concat ==
    \E other \in Others : Mutate("concat", <<other>>, concat(self, other)) /\ UNCHANGED hazard

Next ==
    \/ LookAt
    \/ Matrix
    \/ ViewMatrix
    \/ TranslationRef
    \/ RotationRef
    \/ IsometryRef
    \/ Orientation
    \/ MoveGlobal
    \/ MoveLocal
    \/ MoveAlongGlobal
    \/ MoveAlongLocal
    \/ MoveForward
    \/ MoveBackward
    \/ MoveRight
    \/ MoveLeft
    \/ MoveUp
    \/ MoveDown
    \/ AddX
    \/ AddY
    \/ AddZ
    \/ SetX
    \/ SetY
    \/ SetZ
    \/ PitchGlobal
    \/ PitchLocal
    \/ YawGlobal
    \/ YawLocal
    \/ RollGlobal
    \/ RollLocal
    \/ RotateGlobal
    \/ RotateLocal
    \/ SetPosition
    \/ AddXyz
    \/ SetXyz
    \/ SetRotation
    \/ SetScale
    \/ SetRotationEuler
    \/ Concat

Spec == Init /\ [][Next]_vars

(* ------------------------------------------------------------------ *)
(* The codec: Transforms are decoded from wire records and encoded     *)
(* ------------------------------------------------------------------ *)

\* Transform::deserialize(rec): Ok(t) replaces the Transform observed, Err
\* leaves it
Decode(op, rec) ==
    \E r \in {deserialize(rec)} :
        /\ self' = IF r.ok THEN r.t ELSE self
        /\ InField(self')
        /\ last' = Call(op, <<rec>>, NoTransform, [ok |-> r.ok], FALSE)
        /\ UNCHANGED <<n, hazard>>

Deserialize == \E rec \in WireRecords : Decode("deserialize", rec)

Serialize ==
    /\ last' = Call("serialize", <<>>, self, serialize(self), FALSE)
    /\ UNCHANGED <<self, n, hazard>>

\* serde_test::assert_tokens: the tokens just written are read back
RoundTrip ==
    /\ last.op = "serialize"
    /\ \E r \in {deserialize(last.val)} :
        /\ self' = IF r.ok THEN r.t ELSE self
        /\ last' = Call("round_trip", <<last.val>>, self, [ok |-> r.ok], FALSE)
        /\ UNCHANGED <<n, hazard>>

NextCodec ==
    \/ Deserialize
    \/ Serialize
    \/ RoundTrip

SpecCodec == Init /\ [][NextCodec]_vars

(* ------------------------------------------------------------------ *)
(* Properties                                                          *)
(* ------------------------------------------------------------------ *)

\* the quaternion has norm 1 (a NaN norm is not 1)
IsUnit(q) == Eq(QNorm(q), One)

\* a Transform of the data model: real components and a unit rotation
Valid(t) ==
    /\ \A i \in 1..3 : IsNum(t.translation[i]) /\ IsNum(t.scale[i])
    /\ IsUnit(t.rotation)

\* u is a positive multiple of v
SameDirection(u, v) == Cross(u, v) = V(0, 0, 0) /\ Pos(Dot(u, v))

\* t + R(s (.) p), as the homogeneous point it is
Expected(t, p) ==
    LET q == VAdd(t.translation, QRot(t.rotation, component_mul(t.scale, p)))
    IN  <<q[1], q[2], q[3], One>>

\* C1: matrix() maps every point p to t + R(s (.) p) (scale, then rotation,
\* then translation); its fourth column is (t.x, t.y, t.z, 1); for the
\* default Transform it is the identity.
C1_MatrixScaleRotateTranslate ==
    (last.op = "matrix" /\ Valid(self)) =>
        /\ \A p \in Points : MatPoint(last.val, p) = Expected(self, p)
        /\ \A r \in 1..3 : last.val[r][4] = self.translation[r]
        /\ last.val[4][4] = One
        /\ (self = Default => last.val = Identity4)

C1_Witness ==
    /\ last.op = "matrix"
    /\ Valid(self)
    /\ self.translation # V(0, 0, 0)
    /\ self.rotation # QIdentity
    /\ self.scale[1] # self.scale[2]

\* C2: after self.concat(other), self.matrix() is the product of the old
\* self.matrix() and other.matrix() (other is applied first, then self).
C2_ConcatIsMatrixProduct ==
    (last.op = "concat" /\ Valid(last.pre)) =>
        matrix(self) = MatMul(matrix(last.pre), matrix(last.args[1]))

\* C3 (as stated): after any sequence of the mutating operators the
\* rotation has norm 1.
C3_RotationAlwaysUnit == IsUnit(self.rotation)

\* C3 (amended): after any sequence of the mutating operators in which every
\* look_at call had a target other than the translation and an up vector not
\* parallel to the direction looked in, the rotation has norm 1.
C3_UnitUnlessLookAtHazard == ~hazard => IsUnit(self.rotation)

C3_Witness ==
    /\ ~hazard
    /\ n = MaxOps
    /\ last.op = "look_at"
    /\ last.pre.rotation # QIdentity
    /\ self.rotation # last.pre.rotation

\* C7: view_matrix() returns the inverse of matrix() or fails; it fails
\* exactly when some scale component is zero, and the Transform is unchanged.
C7_ViewMatrixInverseOrPanic ==
    (last.op = "view_matrix" /\ Valid(last.pre)) =>
        /\ self = last.pre
        /\ last.panic <=> (\E i \in 1..3 : self.scale[i] = Zero)
        /\ ~last.panic => MatMul(matrix(self), last.val) = Identity4

C7_Witness ==
    /\ last.op = "view_matrix"
    /\ Valid(last.pre)
    /\ last.panic
    /\ self.scale[2] = Zero

\* C8: after look_at(target, up) with target # translation and up not
\* parallel to target - translation, the rotation takes the local forward
\* axis (0, 0, -1) to the direction of target - translation.
C8_LookAtFacesTarget ==
    (/\ last.op = "look_at"
     /\ Valid(last.pre)
     /\ ~Degenerate(VSub(last.args[1], last.pre.translation), last.args[2])) =>
        SameDirection(QRot(self.rotation, V(0, 0, -1)),
                      VSub(last.args[1], last.pre.translation))

\* C9: rotate_global(axis, a) then rotate_global(axis, b) leaves the rotation
\* of rotate_global(axis, a + b), and likewise rotate_local; rotate_global
\* pre-multiplies (the new rotation is the old one followed by q, in world
\* space) and rotate_local post-multiplies (q, then the old one).
C9_SameAxisAnglesAdd ==
    /\ (last.op = "rotate_global" /\ Valid(last.pre)) =>
        LET axis == last.args[1]
            a == last.args[2]
            q == from_axis_angle(axis, a)
        IN  /\ \A b \in Angles :
                  rotate_global(self, axis, b).rotation
                      = rotate_global(last.pre, axis, a + b).rotation
            /\ self.rotation = QMul(q, last.pre.rotation)
            /\ \A p \in Points :
                  QRot(self.rotation, p) = QRot(q, QRot(last.pre.rotation, p))
    /\ (last.op = "rotate_local" /\ Valid(last.pre)) =>
        LET axis == last.args[1]
            a == last.args[2]
            q == from_axis_angle(axis, a)
        IN  /\ \A b \in Angles :
                  rotate_local(self, axis, b).rotation
                      = rotate_local(last.pre, axis, a + b).rotation
            /\ self.rotation = QMul(last.pre.rotation, q)
            /\ \A p \in Points :
                  QRot(self.rotation, p) = QRot(last.pre.rotation, QRot(q, p))

C9_Witness ==
    /\ last.op = "rotate_global"
    /\ Valid(last.pre)
    /\ last.pre.rotation # QIdentity
    /\ QMul(self.rotation, last.pre.rotation) # QMul(last.pre.rotation, self.rotation)

\* C10: (a.concat(b)).concat(c) and a.concat(b.concat(c)) have the same
\* rotation and the same scale.
C10_ConcatAssociativeRotationScale ==
    (last.op = "concat" /\ Valid(last.pre)) =>
        \A c \in Others :
            /\ concat(self, c).rotation
                   = concat(last.pre, concat(last.args[1], c)).rotation
            /\ concat(self, c).scale
                   = concat(last.pre, concat(last.args[1], c)).scale

\* ... and a case where the two translations differ
C10_Witness ==
    /\ last.op = "concat"
    /\ Valid(last.pre)
    /\ last.pre # Default
    /\ \E c \in Others :
           concat(self, c).translation
               # concat(last.pre, concat(last.args[1], c)).translation

\* the quaternion a wire rotation field (w, x, y, z) stands for
WireQuat(f) == QNew(f[1], f[2], f[3], f[4])

\* C4: decoding a record whose rotation field holds any four numbers succeeds
\* with a rotation of norm 1 that is the input divided by its norm.
C4_DecodeNormalizesAnyRotation ==
    (/\ last.op = "deserialize"
     /\ WellFormed(last.args[1])
     /\ HasField(last.args[1], "rotation")) =>
        LET given == WireQuat(FieldOf(last.args[1], "rotation"))
        IN  /\ last.val.ok
            /\ IsUnit(self.rotation)
            /\ \A i \in 1..4 : Eq(Mul(self.rotation[i], QNorm(given)), given[i])

\* C5: decoding gives every omitted field its default ((0,0,0), the identity
\* quaternion, (1,1,1)) independently of the others and every present field
\* its decoded value; the empty record decodes to Transform::default(), and a
\* record with one field to the default Transform with that field set.
C5_DecodeDefaults ==
    (last.op = "deserialize" /\ last.val.ok) =>
        LET rec == last.args[1]
        IN  /\ self.translation =
                   IF HasField(rec, "translation") THEN FieldOf(rec, "translation")
                   ELSE V(0, 0, 0)
            /\ self.scale =
                   IF HasField(rec, "scale") THEN FieldOf(rec, "scale") ELSE V(1, 1, 1)
            /\ ~HasField(rec, "rotation") =>
                   QW(self.rotation) = One /\ QVec(self.rotation) = V(0, 0, 0)
            /\ (HasField(rec, "rotation") /\ IsUnit(WireQuat(FieldOf(rec, "rotation")))) =>
                   self.rotation = WireQuat(FieldOf(rec, "rotation"))
            /\ rec = <<>> => self = Default
            /\ (Len(rec) = 1 /\ rec[1][1] = "translation") =>
                   self = set_position(Default, rec[1][2])
            /\ (Len(rec) = 1 /\ rec[1][1] = "scale") =>
                   self = set_scale(Default, rec[1][2][1], rec[1][2][2], rec[1][2][3])
            /\ (Len(rec) = 1 /\ rec[1][1] = "rotation" /\ IsUnit(WireQuat(rec[1][2]))) =>
                   self = set_rotation(Default, WireQuat(rec[1][2]))

C5_Witness ==
    /\ last.op = "deserialize"
    /\ last.val.ok
    /\ Len(last.args[1]) = 1
    /\ last.args[1][1][1] = "scale"
    /\ self.scale # V(1, 1, 1)
    /\ self.rotation = QIdentity

\* C6: encoding emits the fields translation, rotation, scale in that order,
\* the rotation as (w, x, y, z), every component unchanged; decoding the
\* output of encoding a Transform with a unit rotation gives it back.
C6_EncodeOrderAndRoundTrip ==
    /\ last.op = "serialize" =>
        /\ Len(last.val) = 3
        /\ <<last.val[1][1], last.val[2][1], last.val[3][1]>>
               = <<"translation", "rotation", "scale">>
        /\ last.val[1][2] = self.translation
        /\ last.val[2][2] = <<QW(self.rotation), QVec(self.rotation)[1],
                              QVec(self.rotation)[2], QVec(self.rotation)[3]>>
        /\ last.val[3][2] = self.scale
        /\ self = last.pre
    /\ (last.op = "round_trip" /\ Valid(last.pre)) =>
        /\ last.val.ok
        /\ self = last.pre

C6_Witness ==
    /\ last.op = "round_trip"
    /\ Valid(last.pre)
    /\ self = last.pre
    /\ last.pre.rotation[1] # Zero
    /\ last.pre.rotation[1] # last.pre.rotation[4]
    /\ last.pre.translation # V(0, 0, 0)
    /\ last.pre.scale # V(1, 1, 1)

(* ------------------------------------------------------------------ *)
(* Euler angles                                                        *)
(* ------------------------------------------------------------------ *)

\* two unit quaternions turn every axis the same way
SameRotation(p, q) == \A v \in Axes : QRot(p, v) = QRot(q, v)

\* C11: set_rotation_euler(x, y, z) sets the rotation, whatever it was
\* before, to the one built from x about the X axis, y about the Y axis and
\* z about the Z axis: with only one angle not zero, it is the rotation by
\* that angle about that angle's axis.
C11_EulerAnglesAboutOwnAxes ==
    last.op = "set_rotation_euler" =>
        /\ (last.args[2] = 0 /\ last.args[3] = 0) =>
               SameRotation(self.rotation, from_axis_angle(x_axis, last.args[1]))
        /\ (last.args[1] = 0 /\ last.args[3] = 0) =>
               SameRotation(self.rotation, from_axis_angle(y_axis, last.args[2]))
        /\ (last.args[1] = 0 /\ last.args[2] = 0) =>
               SameRotation(self.rotation, from_axis_angle(z_axis, last.args[3]))

\* what the code does instead: x turns about Y, y about Z, z about X, and
\* the previous rotation plays no part
C11_EulerAnglesPermuted ==
    last.op = "set_rotation_euler" =>
        /\ (last.args[2] = 0 /\ last.args[3] = 0) =>
               SameRotation(self.rotation, from_axis_angle(y_axis, last.args[1]))
        /\ (last.args[1] = 0 /\ last.args[3] = 0) =>
               SameRotation(self.rotation, from_axis_angle(z_axis, last.args[2]))
        /\ (last.args[1] = 0 /\ last.args[2] = 0) =>
               SameRotation(self.rotation, from_axis_angle(x_axis, last.args[3]))
        /\ self.rotation = from_euler_angles(last.args[3], last.args[1], last.args[2])

(* ------------------------------------------------------------------ *)
(* Frame conditions                                                    *)
(* ------------------------------------------------------------------ *)

TranslationOps ==
    {"move_global", "move_local", "move_along_global", "move_along_local",
     "move_forward", "move_backward", "move_right", "move_left", "move_up",
     "move_down", "add_x", "add_y", "add_z", "add_xyz", "set_x", "set_y",
     "set_z", "set_xyz", "set_position"}

RotationOps ==
    {"look_at", "rotate_global", "rotate_local", "pitch_global", "pitch_local",
     "yaw_global", "yaw_local", "roll_global", "roll_local", "set_rotation",
     "set_rotation_euler"}

ReadOps == {"matrix", "view_matrix", "orientation", "translation", "rotation", "isometry"}

\* C12: each mutating operator changes only the field group it names.  A
\* translation operator leaves rotation and scale as they were, a rotation
\* operator leaves translation and scale, set_scale leaves translation and
\* rotation; set_x/add_x (y, z alike) leave the other two translation
\* components; matrix(), view_matrix(), orientation() and the read accessors
\* leave the whole Transform as it was.
C12_OperatorsChangeOnlyTheirFields ==
    /\ last.op \in TranslationOps =>
           self.rotation = last.pre.rotation /\ self.scale = last.pre.scale
    /\ last.op \in RotationOps =>
           self.translation = last.pre.translation /\ self.scale = last.pre.scale
    /\ last.op = "set_scale" =>
           self.translation = last.pre.translation /\ self.rotation = last.pre.rotation
    /\ last.op \in {"set_x", "add_x"} =>
           /\ self.translation[2] = last.pre.translation[2]
           /\ self.translation[3] = last.pre.translation[3]
    /\ last.op \in {"set_y", "add_y"} =>
           /\ self.translation[1] = last.pre.translation[1]
           /\ self.translation[3] = last.pre.translation[3]
    /\ last.op \in {"set_z", "add_z"} =>
           /\ self.translation[1] = last.pre.translation[1]
           /\ self.translation[2] = last.pre.translation[2]
    /\ last.op \in ReadOps => self = last.pre

\* a translation operator has moved a Transform that was turned before
C12_Witness ==
    /\ last.op = "set_position"
    /\ last.pre.rotation # QIdentity
    /\ self.translation # last.pre.translation
    /\ self.rotation = last.pre.rotation

====
